---- MODULE Spec2Model ----
(***************************************************************************)
(* Model of the client research pipeline of server.js: the POST            *)
(* /api/research handler, performClientResearch, the four provider         *)
(* adapters (getClearbitData, getHunterData, getNewsData, getAIAnalysis)   *)
(* and the four mock generators.                                           *)
(*                                                                         *)
(* JavaScript values are records [t, s]: t is the type tag and s the       *)
(* text of the value as a sequence of string pieces (the pieces of a       *)
(* template literal and the values interpolated into it).                  *)
(***************************************************************************)
EXTENDS Integers, Sequences, FiniteSets, TLC

\* ------------------------------------------------------------------ bounds
NumInv == 2          \* invocation slots of the pipeline
MaxClock == 1        \* instants the wall clock can show: 0..MaxClock
MaxEmails == 4       \* longest e-mail list a contact-discovery reply carries
MaxArticles == 3     \* longest article list a news reply carries

Invs == 1..NumInv

\* admin requests in flight
NumReq == 2

Reqs == 1..NumReq

\* ------------------------------------------------------- JavaScript values
NULL == [t |-> "null", s |-> <<>>]
UNDEF == [t |-> "undefined", s |-> <<>>]
\* an object that cannot be converted to a primitive, as JSON.parse gives
\* for {"toString": 0}: both template literals and + raise TypeError on it
BADOBJ == [t |-> "object", s |-> <<>>]
Str(pieces) == [t |-> "string", s |-> pieces]
Num(digits) == [t |-> "number", s |-> <<digits>>]

\* Truthy as it would be if only a missing value were falsy
Truthy_unlessMissing(v) == v.t \notin {"null", "undefined"}

\* ToBoolean
Truthy(v) ==
    \/ v.t = "object"
    \/ v.t = "string" /\ v.s # <<>>
    \/ v.t = "number" /\ v.s # <<"0">>

\* ToString raises TypeError exactly on the objects without a primitive
CanToString(v) == v.t # "object"

\* ToString of a value that has one
JsToString(v) ==
    CASE v.t = "null" -> <<"null">>
      [] v.t = "undefined" -> <<"undefined">>
      [] OTHER -> v.s

\* a completion: the value an expression returns, or the fact that it threw
Normal(v) == [thrown |-> FALSE, v |-> v]
Throw == [thrown |-> TRUE, v |-> UNDEF]

\* a template literal: the pieces in order, each either literal text
\* (a string value) or an interpolated value; throws when one cannot convert
RECURSIVE TemplatePieces(_)
TemplatePieces(vals) ==
    IF vals = <<>> THEN <<>>
    ELSE JsToString(Head(vals)) \o TemplatePieces(Tail(vals))

Template(vals) ==
    IF \A k \in 1..Len(vals) : CanToString(vals[k])
    THEN Normal(Str(TemplatePieces(vals)))
    ELSE Throw

Lit(text) == Str(<<text>>)

\* Array.prototype.join over string values
RECURSIVE Join(_, _)
Join(strs, sep) ==
    IF strs = <<>> THEN <<>>
    ELSE IF Len(strs) = 1 THEN Head(strs).s
    ELSE Head(strs).s \o <<sep>> \o Join(Tail(strs), sep)

\* Slice as it would be if the adapters kept every item of the reply
Slice_all(seq, n) == seq

\* Array.prototype.slice(0, n)
Slice(seq, n) == SubSeq(seq, 1, IF Len(seq) < n THEN Len(seq) ELSE n)

\* ------------------------------------------------- company-profile payloads
\* a sub-object of a payload that may be missing (read with ?.)
Absent2 == [present |-> FALSE, a |-> UNDEF, b |-> UNDEF]
Category(industry) == [present |-> TRUE, a |-> industry, b |-> UNDEF]
Geo(city, country) == [present |-> TRUE, a |-> city, b |-> country]
Metrics(employees) == [present |-> TRUE, a |-> employees, b |-> UNDEF]

\* o?.a and o?.b
ChainA(o) == IF o.present THEN o.a ELSE UNDEF
ChainB(o) == IF o.present THEN o.b ELSE UNDEF

\* response.data of the company-profile provider: an object, or a falsy
\* primitive (kind "null": JSON null; kind "empty": an empty body, "")
Company(category, domain, geo, metrics, description) ==
    [kind |-> "object", category |-> category, domain |-> domain,
     geo |-> geo, metrics |-> metrics, description |-> description]
NoProps(kind) ==
    [kind |-> kind, category |-> Absent2, domain |-> UNDEF,
     geo |-> Absent2, metrics |-> Absent2, description |-> UNDEF]

\* ------------------------------------------------------- mock generators
\* property names every object literal inherits from Object.prototype:
\* mockData[name] finds a (truthy) function or object under them
ObjectPrototypeKeys ==
    {"constructor", "toString", "valueOf", "hasOwnProperty", "__proto__",
     "isPrototypeOf", "propertyIsEnumerable", "toLocaleString"}

mockData_Apple ==
    Company(Category(Lit("Technology")), Lit("apple.com"),
            Geo(Lit("Cupertino"), Lit("United States")),
            Metrics(Num("164000")),
            Lit("Technology company that designs and manufactures consumer electronics, software, and online services."))

mockData_Microsoft ==
    Company(Category(Lit("Technology")), Lit("microsoft.com"),
            Geo(Lit("Redmond"), Lit("United States")),
            Metrics(Num("221000")),
            Lit("Multinational technology company that develops computer software, consumer electronics, and cloud services."))

mockData_Unknown ==
    Company(Category(Lit("Unknown")), Lit("unknown.com"),
            Geo(Lit("Unknown"), Lit("Unknown")),
            Metrics(Lit("Unknown")),
            Lit("Company information not available in mock data."))

\* mockData[companyName] || {...}: an own key, else an inherited property
\* (an object with none of the profile's fields), else the unknown profile
getMockCompanyData(companyName) ==
    IF companyName = Lit("Apple Inc") THEN mockData_Apple
    ELSE IF companyName = Lit("Microsoft Corporation") THEN mockData_Microsoft
    ELSE IF \E k \in ObjectPrototypeKeys : companyName = Lit(k)
         THEN NoProps("object")
    ELSE mockData_Unknown

\* getMockContactData as it would be with another third mailbox
getMockContactData_support(domain) ==
    Template(<<Lit("info@"), domain, Lit(", sales@"), domain,
               Lit(", support@"), domain>>)

getMockContactData(domain) ==
    Template(<<Lit("info@"), domain, Lit(", sales@"), domain,
               Lit(", contact@"), domain>>)

\* getMockNewsData as it would be if the second headline left the name out
getMockNewsData_unnamed(companyName) ==
    Template(<<Lit("Recent "), companyName,
               Lit(" announcement about new product launch; "),
               Lit("the company reports quarterly earnings")>>)

getMockNewsData(companyName) ==
    Template(<<Lit("Recent "), companyName,
               Lit(" announcement about new product launch; "),
               companyName, Lit(" reports quarterly earnings")>>)

getMockAnalysis(companyData) ==
    Template(<<companyData.name,
               Lit(" shows strong potential for B2B partnerships given their "),
               companyData.industry, Lit(" focus and "),
               companyData.employees,
               Lit(" employee base. Target C-level executives and department heads for decision-making. Approach with industry-specific solutions and emphasize ROI and efficiency gains.")>>)

\* --------------------------------------------------------- remote outcomes
\* what a remote call comes to: a 2xx reply carrying data, or one of the
\* failures on which axios rejects
FailureKinds == {"network", "status", "timeout"}

Ok(data) == [kind |-> "ok", data |-> data]
Failed(kind, data) == [kind |-> kind, data |-> data]

\* ErrorMessage as it would be if the catch blocks logged the error without
\* its message
ErrorMessage_none(kind, timeout) == <<>>

\* error.message of the rejection (of a TypeError raised while reading a
\* 2xx reply when kind is "ok")
ErrorMessage(kind, timeout) ==
    CASE kind = "network" -> <<"Network Error">>
      [] kind = "status" -> <<"Request failed with status code 500">>
      [] kind = "timeout" -> <<"timeout of ", timeout, "ms exceeded">>
      [] OTHER -> <<"TypeError">>

LogLine(level, text) == [level |-> level, text |-> text]

\* what one adapter call does: its completion (thrown, v), whether it issued
\* its remote call, and the lines it wrote to the console
AdapterResult(completion, remote, log) ==
    [thrown |-> completion.thrown, v |-> completion.v,
     remote |-> remote, log |-> log]

\* ------------------------------------------------ company-profile adapter
getClearbitData(companyName, key, outcome) ==
    IF ~key
    THEN AdapterResult(Normal(getMockCompanyData(companyName)), FALSE,
            <<LogLine("log", <<"Clearbit API key not configured, using mock data">>)>>)
    ELSE IF outcome.kind = "ok"
    THEN AdapterResult(Normal(outcome.data), TRUE, <<>>)
    ELSE AdapterResult(Normal(getMockCompanyData(companyName)), TRUE,
            <<LogLine("error", <<"Clearbit API error:">>
                                 \o ErrorMessage(outcome.kind, "10000"))>>)

\* ---------------------------------------------- contact-discovery adapter
\* one entry of response.data.data.emails; isObject is FALSE for a null entry
Email(value, first_name, last_name, position) ==
    [isObject |-> TRUE, value |-> value, first_name |-> first_name,
     last_name |-> last_name, position |-> position]
NullEmail ==
    [isObject |-> FALSE, value |-> UNDEF, first_name |-> UNDEF,
     last_name |-> UNDEF, position |-> UNDEF]

\* response.data of the provider; isList is FALSE when data.data.emails
\* is missing or is not an array
EmailsReply(emails) == [isList |-> TRUE, emails |-> emails]
NoEmailsReply == [isList |-> FALSE, emails |-> <<>>]

FormatEmail(email) ==
    IF ~email.isObject THEN Throw
    ELSE Template(<<email.value, Lit(" ("), email.first_name, Lit(" "),
                    email.last_name, Lit(" - "), email.position, Lit(")")>>)

\* response.data.data.emails.slice(0, 3).map(...).join(', ')
HunterLive(data) ==
    IF ~data.isList THEN Throw
    ELSE LET first == Slice(data.emails, 3)
             lines == [k \in 1..Len(first) |-> FormatEmail(first[k])]
         IN IF \E k \in 1..Len(first) : lines[k].thrown THEN Throw
            ELSE Normal(Str(Join([k \in 1..Len(first) |-> lines[k].v], ", ")))

getHunterData(domain, key, outcome) ==
    IF ~key
    THEN AdapterResult(getMockContactData(domain), FALSE,
            <<LogLine("log", <<"Hunter API key not configured, using mock data">>)>>)
    ELSE LET live == IF outcome.kind = "ok" THEN HunterLive(outcome.data)
                     ELSE Throw
         IN IF ~live.thrown THEN AdapterResult(live, TRUE, <<>>)
            ELSE AdapterResult(getMockContactData(domain), TRUE,
                    <<LogLine("error", <<"Hunter API error:">>
                                         \o ErrorMessage(outcome.kind, "10000"))>>)

\* ---------------------------------------------------- news-lookup adapter
Article(title, publishedAt) ==
    [isObject |-> TRUE, title |-> title, publishedAt |-> publishedAt]
NullArticle == [isObject |-> FALSE, title |-> UNDEF, publishedAt |-> UNDEF]

ArticlesReply(articles) == [isList |-> TRUE, articles |-> articles]
NoArticlesReply == [isList |-> FALSE, articles |-> <<>>]

\* new Date(v).toLocaleDateString() in the en-US locale: the short date of a
\* date string, "Invalid Date" for what is not a date; new Date raises on an
\* object without a primitive
toLocaleDateString(v) ==
    CASE v.t = "object" -> Throw
      [] v = Lit("2024-01-15T10:00:00Z") -> Normal(Lit("1/15/2024"))
      [] v = Lit("2024-02-01T08:30:00Z") -> Normal(Lit("2/1/2024"))
      [] v = Lit("2024-03-09T17:45:00Z") -> Normal(Lit("3/9/2024"))
      [] OTHER -> Normal(Lit("Invalid Date"))

FormatArticle(article) ==
    IF ~article.isObject THEN Throw
    ELSE LET date == toLocaleDateString(article.publishedAt)
         IN IF date.thrown THEN Throw
            ELSE Template(<<article.title, Lit(" ("), date.v, Lit(")")>>)

\* response.data.articles.slice(0, 2).map(...).join('; ')
NewsLive(data) ==
    IF ~data.isList THEN Throw
    ELSE LET first == Slice(data.articles, 2)
             lines == [k \in 1..Len(first) |-> FormatArticle(first[k])]
         IN IF \E k \in 1..Len(first) : lines[k].thrown THEN Throw
            ELSE Normal(Str(Join([k \in 1..Len(first) |-> lines[k].v], "; ")))

\* getNewsData as it would be without the check of the credential
getNewsData_withoutKeyCheck(companyName, key, outcome) ==
    LET live == IF outcome.kind = "ok" THEN NewsLive(outcome.data) ELSE Throw
    IN IF ~live.thrown THEN AdapterResult(live, TRUE, <<>>)
       ELSE AdapterResult(getMockNewsData(companyName), TRUE,
               <<LogLine("error", <<"News API error:">>
                                    \o ErrorMessage(outcome.kind, "10000"))>>)

getNewsData(companyName, key, outcome) ==
    IF ~key
    THEN AdapterResult(getMockNewsData(companyName), FALSE,
            <<LogLine("log", <<"News API key not configured, using mock data">>)>>)
    ELSE LET live == IF outcome.kind = "ok" THEN NewsLive(outcome.data)
                     ELSE Throw
         IN IF ~live.thrown THEN AdapterResult(live, TRUE, <<>>)
            ELSE AdapterResult(getMockNewsData(companyName), TRUE,
                    <<LogLine("error", <<"News API error:">>
                                         \o ErrorMessage(outcome.kind, "10000"))>>)

\* --------------------------------------------- narrative-synthesis adapter
\* response.data of the provider; hasMessage is FALSE when choices[0] or
\* its message is missing
ChatReply(content) == [hasMessage |-> TRUE, content |-> content]
NoChoiceReply == [hasMessage |-> FALSE, content |-> UNDEF]

Whitespace == {" ", "\n"}

\* String.prototype.trim on the pieces of a string
RECURSIVE TrimLeft(_)
TrimLeft(pieces) ==
    IF pieces # <<>> /\ Head(pieces) \in Whitespace
    THEN TrimLeft(Tail(pieces)) ELSE pieces

RECURSIVE TrimRight(_)
TrimRight(pieces) ==
    IF pieces # <<>> /\ pieces[Len(pieces)] \in Whitespace
    THEN TrimRight(SubSeq(pieces, 1, Len(pieces) - 1)) ELSE pieces

Trim(pieces) == TrimRight(TrimLeft(pieces))

\* the prompt template of the request
Prompt(companyData) ==
    Template(<<Lit("Analyze this company for B2B sales opportunities:\n\nCompany: "),
               companyData.name, Lit("\nIndustry: "), companyData.industry,
               Lit("\nLocation: "), companyData.location,
               Lit("\nEmployees: "), companyData.employees,
               Lit("\nDescription: "), companyData.description,
               Lit("\nRecent News: "), companyData.news,
               Lit("\n\nProvide a brief analysis (2-3 sentences) focusing on:\n1. Sales opportunity potential\n2. Key decision makers to target\n3. Best approach strategy")>>)

\* AnalysisLive as it would be if the content were returned as it came,
\* without trim()
AnalysisLive_untrimmed(data) ==
    IF ~data.hasMessage THEN Throw ELSE Normal(data.content)

\* response.data.choices[0].message.content.trim()
AnalysisLive(data) ==
    IF ~data.hasMessage \/ data.content.t # "string" THEN Throw
    ELSE Normal(Str(Trim(data.content.s)))

\* the prompt is built inside the try block, before the request is sent:
\* when building it raises, no request is sent
getAIAnalysis(companyData, key, outcome) ==
    IF ~key
    THEN AdapterResult(getMockAnalysis(companyData), FALSE,
            <<LogLine("log", <<"OpenAI API key not configured, using mock analysis">>)>>)
    ELSE LET prompt == Prompt(companyData)
             live == IF prompt.thrown THEN Throw
                     ELSE IF outcome.kind = "ok" THEN AnalysisLive(outcome.data)
                     ELSE Throw
         IN IF ~live.thrown THEN AdapterResult(live, TRUE, <<>>)
            ELSE AdapterResult(getMockAnalysis(companyData), ~prompt.thrown,
                    <<LogLine("error", <<"OpenAI API error:">>
                          \o ErrorMessage(IF prompt.thrown THEN "ok" ELSE outcome.kind,
                                          "15000"))>>)

\* ------------------------------------------------------------------ inputs
Providers == {"clearbit", "hunter", "news", "openai"}

\* req.body.clientName of the requests: entity names, the empty string, a
\* missing field, and an object without a primitive
Names ==
    {Lit("Apple Inc"), Lit("Microsoft Corporation"), Lit("Some Unknown LLC"),
     Lit("constructor")}
ClientNames == Names \cup {Str(<<>>), UNDEF, BADOBJ}

\* 2xx replies of the company-profile provider
ClearbitReplies ==
    LET cat == Category(Lit("Software"))
        geo == Geo(Lit("Berlin"), Lit("Germany"))
        met == Metrics(Num("250"))
        des == Lit("Acme builds tools.")
    IN { Company(cat, Lit("acme.io"), geo, met, des),
         Company(cat, Lit("acme.io"), Absent2, met, des),
         Company(Absent2, Lit("acme.io"), geo, Absent2, UNDEF),
         Company(cat, NULL, geo, met, des),
         Company(cat, Lit("acme.io"), Geo(BADOBJ, Lit("Germany")), met, des),
         Company(cat, BADOBJ, geo, met, des),
         Company(Category(BADOBJ), Lit("acme.io"), geo, met, des),
         NoProps("object"), NoProps("null"), NoProps("empty") }

ClearbitOutcomes ==
    {Ok(d) : d \in ClearbitReplies}
        \cup {Failed(k, NoProps("null")) : k \in FailureKinds}

SampleEmail(n) ==
    CASE n = 1 -> Email(Lit("ann@acme.io"), Lit("Ann"), Lit("Lee"), Lit("CEO"))
      [] n = 2 -> Email(Lit("bob@acme.io"), Lit("Bob"), Lit("Ray"), Lit("CTO"))
      [] n = 3 -> Email(Lit("cy@acme.io"), Lit("Cy"), Lit("Poe"), Lit("CFO"))
      [] OTHER -> Email(Lit("di@acme.io"), Lit("Di"), Lit("Orr"), Lit("COO"))

\* 2xx replies of the contact-discovery provider
HunterReplies ==
    {EmailsReply([k \in 1..n |-> SampleEmail(k)]) : n \in 0..MaxEmails}
        \cup { EmailsReply(<<Email(Lit("ann@acme.io"), UNDEF, UNDEF, UNDEF)>>),
               EmailsReply(<<NullEmail>>),
               NoEmailsReply }

HunterOutcomes ==
    {Ok(d) : d \in HunterReplies}
        \cup {Failed(k, NoEmailsReply) : k \in FailureKinds}

SampleArticle(n) ==
    CASE n = 1 -> Article(Lit("Acme raises funds"), Lit("2024-01-15T10:00:00Z"))
      [] n = 2 -> Article(Lit("Acme opens office"), Lit("2024-02-01T08:30:00Z"))
      [] OTHER -> Article(Lit("Acme hires CFO"), Lit("2024-03-09T17:45:00Z"))

\* 2xx replies of the news provider
NewsReplies ==
    {ArticlesReply([k \in 1..n |-> SampleArticle(k)]) : n \in 0..MaxArticles}
        \cup { ArticlesReply(<<Article(Lit("Acme raises funds"), UNDEF)>>),
               ArticlesReply(<<NullArticle>>),
               NoArticlesReply }

NewsOutcomes ==
    {Ok(d) : d \in NewsReplies}
        \cup {Failed(k, NoArticlesReply) : k \in FailureKinds}

\* 2xx replies of the narrative provider
ChatReplies ==
    { ChatReply(Str(<<" ", "Strong prospect. Target the CTO.", "\n">>)),
      ChatReply(Lit("Good fit.")),
      ChatReply(NULL),
      NoChoiceReply }

ChatOutcomes ==
    {Ok(d) : d \in ChatReplies}
        \cup {Failed(k, NoChoiceReply) : k \in FailureKinds}

\* the outcome recorded for a provider whose remote call was not issued
NotCalled(data) == [kind |-> "notcalled", data |-> data]

\* ------------------------------------------------------------------- state
VARIABLES
    API_KEYS,     \* provider -> whether its credential is configured
    clock,        \* the wall clock
    pc,           \* invocation -> where its request stands
    clientName,   \* invocation -> req.body.clientName
    result,       \* invocation -> the record of performClientResearch
    companyInfo,  \* invocation -> what getClearbitData returned
    response,     \* invocation -> what the handler sent back
    console,      \* invocation -> the lines it wrote to the console
    began,        \* invocation -> the clock when aggregation began
    invoked,      \* invocation -> the adapters it invoked, in order
    calls,        \* invocation -> the remote calls it issued, in order
    remote,       \* invocation -> provider -> the outcome of its remote call
    fault,        \* invocation -> the step that threw into the catch block
    atFault       \* invocation -> the record when that step threw

VARIABLES
    adminPc,      \* admin request -> where it is: "none", "received", "done"
    adminReq,     \* admin request -> its route, Authorization header and body
    adminRes,     \* admin request -> what was sent back
    dbOps,        \* the operations issued on the users table, in order
    users         \* the emails in the users table

adminVars == <<adminPc, adminReq, adminRes, dbOps, users>>

researchVars == <<API_KEYS, clock, pc, clientName, result, companyInfo, response,
                  console, began, invoked, calls, remote, fault, atFault>>

vars == <<researchVars, adminVars>>

\* Date.prototype.toISOString of the instant the clock shows
toISOString(instant) == Str(<<"2024-06-01T00:00:0", ToString(instant), ".000Z">>)

\* the record as performClientResearch creates it
NewResult(name, instant) ==
    [name |-> name, timestamp |-> toISOString(instant),
     industry |-> NULL, website |-> NULL, location |-> NULL,
     employees |-> NULL, description |-> NULL, contacts |-> NULL,
     news |-> NULL, analysis |-> NULL]

NoResult == NewResult(UNDEF, 0)

NoResponse == [status |-> 0, error |-> "", body |-> NoResult]

NoRemote ==
    [clearbit |-> NotCalled(NoProps("null")), hunter |-> NotCalled(NoEmailsReply),
     news |-> NotCalled(NoArticlesReply), openai |-> NotCalled(NoChoiceReply)]

\* the users table as the setup seeds it
SeededUsers == {"admin@ventaroai.com"}

NoRequest ==
    [route |-> "none", authorization |-> UNDEF,
     body |-> [name |-> "", email |-> "", password |-> ""]]

NoReply == [status |-> 0, error |-> ""]

Init ==
    /\ adminPc = [j \in Reqs |-> "none"]
    /\ adminReq = [j \in Reqs |-> NoRequest]
    /\ adminRes = [j \in Reqs |-> NoReply]
    /\ dbOps = <<>>
    /\ users = SeededUsers
    /\ API_KEYS \in [Providers -> BOOLEAN]
    /\ clock = 0
    /\ pc = [i \in Invs |-> "idle"]
    /\ clientName = [i \in Invs |-> UNDEF]
    /\ result = [i \in Invs |-> NoResult]
    /\ companyInfo = [i \in Invs |-> NoProps("null")]
    /\ response = [i \in Invs |-> NoResponse]
    /\ console = [i \in Invs |-> <<>>]
    /\ began = [i \in Invs |-> 0]
    /\ invoked = [i \in Invs |-> <<>>]
    /\ calls = [i \in Invs |-> <<>>]
    /\ remote = [i \in Invs |-> NoRemote]
    /\ fault = [i \in Invs |-> "none"]
    /\ atFault = [i \in Invs |-> NoResult]

\* --------------------------------------------------- performClientResearch
\* MergeCompanyInfo as it would be if the merge also copied the provider's
\* name for the company over the record's name
MergeCompanyInfo_overwritesName(r, info) ==
    IF info.kind # "object" THEN [thrown |-> FALSE, rec |-> r]
    ELSE LET r2 == [r EXCEPT !.name = info.domain,
                             !.industry = ChainA(info.category),
                             !.website = info.domain]
             location == Template(<<ChainA(info.geo), Lit(", "), ChainB(info.geo)>>)
         IN IF location.thrown THEN [thrown |-> TRUE, rec |-> r2]
            ELSE [thrown |-> FALSE,
                  rec |-> [r2 EXCEPT !.location = location.v,
                                     !.employees = ChainA(info.metrics),
                                     !.description = info.description]]

\* HunterGate as it would be if step 2 ran whatever the website
HunterGate_always(r) == TRUE

\* CatchResearch as it would be if the catch block started the record over
CatchResearch_startsOver(r) ==
    [r EXCEPT !.industry = NULL, !.website = NULL, !.location = NULL,
              !.employees = NULL, !.description = NULL, !.contacts = NULL,
              !.news = NULL, !.analysis = NULL]

\* step 1's merge of the company profile into the record: the record after
\* the assignments that ran, and whether the merge threw on the way
MergeCompanyInfo(r, info) ==
    IF info.kind # "object" THEN [thrown |-> FALSE, rec |-> r]
    ELSE LET r2 == [r EXCEPT !.industry = ChainA(info.category),
                             !.website = info.domain]
             location == Template(<<ChainA(info.geo), Lit(", "), ChainB(info.geo)>>)
         IN IF location.thrown THEN [thrown |-> TRUE, rec |-> r2]
            ELSE [thrown |-> FALSE,
                  rec |-> [r2 EXCEPT !.location = location.v,
                                     !.employees = ChainA(info.metrics),
                                     !.description = info.description]]

\* step 2 runs only for a truthy website
HunterGate(r) == Truthy(r.website)

\* CatchResearch as it would be if the catch block dropped the contacts
CatchResearch_dropsContacts(r) == [r EXCEPT !.contacts = NULL]

\* the catch block of performClientResearch: logs, keeps the record
CatchResearch(r) == r

\* what performClientResearch returns
ReturnResult(r) == r

\* Outcomes as they would be if a remote call made without a timeout might
\* never settle
Outcomes_neverSettle(provider, all, none) ==
    IF API_KEYS[provider] THEN {} ELSE {NotCalled(none)}

Outcomes(provider, all, none) ==
    IF API_KEYS[provider] THEN all ELSE {NotCalled(none)}

\* Called as it would be if an adapter sent its request a second time after
\* a failure before falling back
Called_retriesOnFailure(i, provider, a, outcome) ==
    /\ invoked' = [invoked EXCEPT ![i] = Append(@, provider)]
    /\ calls' = [calls EXCEPT ![i] =
                    IF ~a.remote THEN @
                    ELSE IF outcome.kind \in FailureKinds
                         THEN Append(Append(@, provider), provider)
                         ELSE Append(@, provider)]
    /\ remote' = [remote EXCEPT ![i][provider] =
                     IF a.remote THEN outcome ELSE NotCalled(outcome.data)]
    /\ console' = [console EXCEPT ![i] = @ \o a.log]

\* the bookkeeping of an adapter call a of invocation i
Called(i, provider, a, outcome) ==
    /\ invoked' = [invoked EXCEPT ![i] = Append(@, provider)]
    /\ calls' = [calls EXCEPT ![i] = IF a.remote THEN Append(@, provider) ELSE @]
    /\ remote' = [remote EXCEPT ![i][provider] =
                     IF a.remote THEN outcome ELSE NotCalled(outcome.data)]
    /\ console' = [console EXCEPT ![i] = @ \o a.log]

Thrown(i, step, r) ==
    /\ pc' = [pc EXCEPT ![i] = "catch"]
    /\ fault' = [fault EXCEPT ![i] = step]
    /\ atFault' = [atFault EXCEPT ![i] = r]

\* the wall clock advances
Tick ==
    /\ clock < MaxClock
    /\ clock' = clock + 1
    /\ UNCHANGED adminVars
    /\ UNCHANGED <<API_KEYS, pc, clientName, result, companyInfo, response,
                   console, began, invoked, calls, remote, fault, atFault>>

\* POST /api/research without a client name: 400
RejectRequest(i, name) ==
    /\ pc[i] = "idle"
    /\ ~Truthy(name)
    /\ clientName' = [clientName EXCEPT ![i] = name]
    /\ response' = [response EXCEPT ![i] =
          [status |-> 400, error |-> "Client name is required", body |-> NoResult]]
    /\ pc' = [pc EXCEPT ![i] = "done"]
    /\ UNCHANGED adminVars
    /\ UNCHANGED <<API_KEYS, clock, result, companyInfo, console, began,
                   invoked, calls, remote, fault, atFault>>

\* POST /api/research with a client name that the log line cannot print:
\* the handler's catch block answers 500
FailRequest(i, name) ==
    /\ pc[i] = "idle"
    /\ Truthy(name) /\ ~CanToString(name)
    /\ clientName' = [clientName EXCEPT ![i] = name]
    /\ console' = [console EXCEPT ![i] = Append(@, LogLine("error", <<"Research error:">>))]
    /\ response' = [response EXCEPT ![i] =
          [status |-> 500, error |-> "Research failed", body |-> NoResult]]
    /\ pc' = [pc EXCEPT ![i] = "done"]
    /\ UNCHANGED adminVars
    /\ UNCHANGED <<API_KEYS, clock, result, companyInfo, began,
                   invoked, calls, remote, fault, atFault>>

\* POST /api/research with a client name: performClientResearch creates
\* its record
StartResearch(i, name) ==
    /\ pc[i] = "idle"
    /\ Truthy(name) /\ CanToString(name)
    /\ clientName' = [clientName EXCEPT ![i] = name]
    /\ console' = [console EXCEPT ![i] =
          Append(@, LogLine("log", <<"Starting research for: ">> \o JsToString(name)))]
    /\ result' = [result EXCEPT ![i] = NewResult(name, clock)]
    /\ began' = [began EXCEPT ![i] = clock]
    /\ pc' = [pc EXCEPT ![i] = "clearbit"]
    /\ UNCHANGED adminVars
    /\ UNCHANGED <<API_KEYS, clock, companyInfo, response,
                   invoked, calls, remote, fault, atFault>>

\* step 1: await getClearbitData(clientName)
CompanyProfile(i, outcome) ==
    /\ pc[i] = "clearbit"
    /\ LET a == getClearbitData(result[i].name, API_KEYS["clearbit"], outcome)
       IN /\ Called(i, "clearbit", a, outcome)
          /\ companyInfo' = [companyInfo EXCEPT ![i] = a.v]
    /\ pc' = [pc EXCEPT ![i] = "merge"]
    /\ UNCHANGED adminVars
    /\ UNCHANGED <<API_KEYS, clock, clientName, result, response, began,
                   fault, atFault>>

\* Merge as it would be if the record were one object of the module, shared
\* by the requests in flight
Merge_sharedRecord(i) ==
    /\ pc[i] = "merge"
    /\ LET m == MergeCompanyInfo(result[i], companyInfo[i])
       IN /\ result' = [k \in Invs |->
                          IF k = i \/ pc[k] \notin {"idle", "done"}
                          THEN m.rec ELSE result[k]]
          /\ IF m.thrown THEN Thrown(i, "merge", m.rec)
             ELSE /\ pc' = [pc EXCEPT ![i] = "hunter"]
                  /\ UNCHANGED <<fault, atFault>>
    /\ UNCHANGED adminVars
    /\ UNCHANGED <<API_KEYS, clock, clientName, companyInfo, response,
                   console, began, invoked, calls, remote>>

\* step 1: if (companyInfo) { ... }
Merge(i) ==
    /\ pc[i] = "merge"
    /\ LET m == MergeCompanyInfo(result[i], companyInfo[i])
       IN /\ result' = [result EXCEPT ![i] = m.rec]
          /\ IF m.thrown THEN Thrown(i, "merge", m.rec)
             ELSE /\ pc' = [pc EXCEPT ![i] = "hunter"]
                  /\ UNCHANGED <<fault, atFault>>
    /\ UNCHANGED adminVars
    /\ UNCHANGED <<API_KEYS, clock, clientName, companyInfo, response,
                   console, began, invoked, calls, remote>>

\* step 2 with a website: await getHunterData(result.website)
ContactDiscovery(i, outcome) ==
    /\ pc[i] = "hunter"
    /\ HunterGate(result[i])
    /\ LET a == getHunterData(result[i].website, API_KEYS["hunter"], outcome)
       IN /\ Called(i, "hunter", a, outcome)
          /\ IF a.thrown
             THEN /\ Thrown(i, "hunter", result[i])
                  /\ UNCHANGED result
             ELSE /\ result' = [result EXCEPT ![i].contacts = a.v]
                  /\ pc' = [pc EXCEPT ![i] = "news"]
                  /\ UNCHANGED <<fault, atFault>>
    /\ UNCHANGED adminVars
    /\ UNCHANGED <<API_KEYS, clock, clientName, companyInfo, response, began>>

\* SkipContactDiscovery as it would be if the news lookup were inside the
\* block that the website guards
SkipContactDiscovery_skipsNews(i) ==
    /\ pc[i] = "hunter"
    /\ ~HunterGate(result[i])
    /\ pc' = [pc EXCEPT ![i] = "analysis"]
    /\ UNCHANGED adminVars
    /\ UNCHANGED <<API_KEYS, clock, clientName, result, companyInfo, response,
                   console, began, invoked, calls, remote, fault, atFault>>

\* step 2 without a website: nothing is called
SkipContactDiscovery(i) ==
    /\ pc[i] = "hunter"
    /\ ~HunterGate(result[i])
    /\ pc' = [pc EXCEPT ![i] = "news"]
    /\ UNCHANGED adminVars
    /\ UNCHANGED <<API_KEYS, clock, clientName, result, companyInfo, response,
                   console, began, invoked, calls, remote, fault, atFault>>

\* NewsLookup as it would be if the synthetic headlines carried the date of
\* the call
NewsLookup_dated(i, outcome) ==
    /\ pc[i] = "news"
    /\ LET a == getNewsData(result[i].name, API_KEYS["news"], outcome)
       IN /\ Called(i, "news", a, outcome)
          /\ IF a.thrown
             THEN /\ Thrown(i, "news", result[i])
                  /\ UNCHANGED result
             ELSE /\ result' = [result EXCEPT ![i].news =
                                   IF a.log = <<>> THEN a.v
                                   ELSE Str(a.v.s \o toISOString(clock).s)]
                  /\ pc' = [pc EXCEPT ![i] = "analysis"]
                  /\ UNCHANGED <<fault, atFault>>
    /\ UNCHANGED adminVars
    /\ UNCHANGED <<API_KEYS, clock, clientName, companyInfo, response, began>>

\* step 3: await getNewsData(clientName)
NewsLookup(i, outcome) ==
    /\ pc[i] = "news"
    /\ LET a == getNewsData(result[i].name, API_KEYS["news"], outcome)
       IN /\ Called(i, "news", a, outcome)
          /\ IF a.thrown
             THEN /\ Thrown(i, "news", result[i])
                  /\ UNCHANGED result
             ELSE /\ result' = [result EXCEPT ![i].news = a.v]
                  /\ pc' = [pc EXCEPT ![i] = "analysis"]
                  /\ UNCHANGED <<fault, atFault>>
    /\ UNCHANGED adminVars
    /\ UNCHANGED <<API_KEYS, clock, clientName, companyInfo, response, began>>

\* step 4: await getAIAnalysis(result)
NarrativeSynthesis(i, outcome) ==
    /\ pc[i] = "analysis"
    /\ LET a == getAIAnalysis(result[i], API_KEYS["openai"], outcome)
       IN /\ Called(i, "openai", a, outcome)
          /\ IF a.thrown
             THEN /\ Thrown(i, "analysis", result[i])
                  /\ UNCHANGED result
             ELSE /\ result' = [result EXCEPT ![i].analysis = a.v]
                  /\ pc' = [pc EXCEPT ![i] = "return"]
                  /\ UNCHANGED <<fault, atFault>>
    /\ UNCHANGED adminVars
    /\ UNCHANGED <<API_KEYS, clock, clientName, companyInfo, response, began>>

\* Catch as it would be if the catch block threw the error on to the
\* handler, whose own catch block answers 500
Catch_rethrows(i) ==
    /\ pc[i] = "catch"
    /\ console' = [console EXCEPT ![i] =
          Append(@, LogLine("error", <<"Research error:">>))]
    /\ response' = [response EXCEPT ![i] =
          [status |-> 500, error |-> "Research failed", body |-> NoResult]]
    /\ pc' = [pc EXCEPT ![i] = "done"]
    /\ UNCHANGED adminVars
    /\ UNCHANGED <<API_KEYS, clock, clientName, result, companyInfo, began,
                   invoked, calls, remote, fault, atFault>>

\* catch (error) { console.error(...) }
Catch(i) ==
    /\ pc[i] = "catch"
    /\ console' = [console EXCEPT ![i] =
          Append(@, LogLine("error", <<"Research error for ">>
                                       \o JsToString(clientName[i]) \o <<":">>))]
    /\ result' = [result EXCEPT ![i] = CatchResearch(@)]
    /\ pc' = [pc EXCEPT ![i] = "return"]
    /\ UNCHANGED adminVars
    /\ UNCHANGED <<API_KEYS, clock, clientName, companyInfo, response, began,
                   invoked, calls, remote, fault, atFault>>

\* return result; the handler sends it: res.json(result)
Respond(i) ==
    /\ pc[i] = "return"
    /\ response' = [response EXCEPT ![i] =
          [status |-> 200, error |-> "", body |-> ReturnResult(result[i])]]
    /\ pc' = [pc EXCEPT ![i] = "done"]
    /\ UNCHANGED adminVars
    /\ UNCHANGED <<API_KEYS, clock, clientName, result, companyInfo, console,
                   began, invoked, calls, remote, fault, atFault>>

\* the requests of one invocation, its client name drawn from names and
\* the outcomes of its remote calls from clearbit, hunter, news and chat
ResearchWith(i, names, clearbit, hunter, news, chat) ==
    \/ \E name \in names : RejectRequest(i, name)
    \/ \E name \in names : FailRequest(i, name)
    \/ \E name \in names : StartResearch(i, name)
    \/ \E o \in Outcomes("clearbit", clearbit, NoProps("null")) :
          CompanyProfile(i, o)
    \/ Merge(i)
    \/ \E o \in Outcomes("hunter", hunter, NoEmailsReply) :
          ContactDiscovery(i, o)
    \/ SkipContactDiscovery(i)
    \/ \E o \in Outcomes("news", news, NoArticlesReply) :
          NewsLookup(i, o)
    \/ \E o \in Outcomes("openai", chat, NoChoiceReply) :
          NarrativeSynthesis(i, o)
    \/ Catch(i)
    \/ Respond(i)

Research(i) ==
    ResearchWith(i, ClientNames, ClearbitOutcomes, HunterOutcomes,
                 NewsOutcomes, ChatOutcomes)

\* one request at a time
Next == Tick \/ Research(1)

Spec == Init /\ [][Next]_vars

\* ------------------------------------------------------ two requests at once
\* the inputs of the two requests: two entity names, an empty name and a
\* name that cannot be printed; per provider one complete reply and a timeout
PairNames == {Lit("Apple Inc"), Lit("constructor"), Str(<<>>), BADOBJ}

PairClearbitOutcomes ==
    { Ok(Company(Category(Lit("Software")), Lit("acme.io"),
                 Geo(Lit("Berlin"), Lit("Germany")), Metrics(Num("250")),
                 Lit("Acme builds tools."))),
      Ok(Company(Category(Lit("Software")), BADOBJ,
                 Geo(Lit("Berlin"), Lit("Germany")), Metrics(Num("250")),
                 Lit("Acme builds tools."))),
      Failed("timeout", NoProps("null")) }

PairHunterOutcomes ==
    { Ok(EmailsReply(<<SampleEmail(1), SampleEmail(2)>>)),
      Failed("timeout", NoEmailsReply) }

PairNewsOutcomes ==
    { Ok(ArticlesReply(<<SampleArticle(1)>>)),
      Failed("timeout", NoArticlesReply) }

PairChatOutcomes ==
    { Ok(ChatReply(Lit("Good fit."))), Failed("timeout", NoChoiceReply) }

ResearchPair(i) ==
    ResearchWith(i, PairNames, PairClearbitOutcomes, PairHunterOutcomes,
                 PairNewsOutcomes, PairChatOutcomes)

\* the server runs with no credential at all, or with all of them
InitPair ==
    /\ Init
    /\ \/ \A p \in Providers : ~API_KEYS[p]
       \/ \A p \in Providers : API_KEYS[p]

\* two requests, their steps interleaved in any order
NextPair == Tick \/ ResearchPair(1) \/ ResearchPair(2)

SpecPair == InitPair /\ [][NextPair]_vars

\* ------------------------------------------------------------ admin routes
\* the identifiers the module binds: its require calls, constants and
\* functions
ModuleBindings ==
    {"express", "cors", "axios", "path", "app", "PORT", "API_KEYS",
     "authenticateToken", "requireAdmin", "performClientResearch",
     "getClearbitData", "getHunterData", "getNewsData", "getAIAnalysis",
     "getMockCompanyData", "getMockContactData", "getMockNewsData",
     "getMockAnalysis"}

\* an identifier evaluates without a ReferenceError
Bound(id) == id \in ModuleBindings

\* what a middleware or a handler did: sent a reply, called next(), threw,
\* or issued a database operation and awaits it
Sent(status, error) == [kind |-> "sent", status |-> status, error |-> error,
                        user |-> "", op |-> "none", email |-> ""]

CallNext(user) == [kind |-> "next", status |-> 0, error |-> "",
                   user |-> user, op |-> "none", email |-> ""]

Uncaught == [kind |-> "throw", status |-> 0, error |-> "ReferenceError",
             user |-> "", op |-> "none", email |-> ""]

Awaits(op, email) == [kind |-> "await", status |-> 0, error |-> "",
                      user |-> "", op |-> op, email |-> email]

\* authHeader && authHeader.split(' ')[1], the header held as its words
Token(authHeader) ==
    IF ~Truthy(authHeader) THEN authHeader
    ELSE IF Len(authHeader.s) >= 2 THEN Lit(authHeader.s[2]) ELSE UNDEF

\* jwt.verify against JWT_SECRET: the role the token was signed for, or
\* "" for a token that does not verify
Verify(token) ==
    CASE token = Lit("admin.jwt") -> "admin"
      [] token = Lit("user.jwt") -> "user"
      [] OTHER -> ""

authenticateToken(authHeader) ==
    LET token == Token(authHeader)
    IN IF ~Truthy(token) THEN Sent(401, "Access token required")
       ELSE IF ~Bound("jwt") THEN Uncaught
       ELSE IF Verify(token) = "" THEN Sent(403, "Invalid token")
       ELSE CallNext(Verify(token))

requireAdmin(user) ==
    IF user # "admin" THEN Sent(403, "Admin access required") ELSE CallNext(user)

\* POST /api/admin/create-user, up to its first await
createUser(body) ==
    IF body.name = "" \/ body.email = "" \/ body.password = ""
    THEN Sent(400, "Name, email, and password are required")
    ELSE IF ~Bound("supabase") THEN Sent(500, "Server error")
    ELSE Awaits("select", body.email)

\* GET /api/admin/users, up to its first await
listUsers ==
    IF ~Bound("supabase") THEN Sent(500, "Server error")
    ELSE Awaits("select", "")

\* Express runs the route's functions in order; a throw of one of them goes
\* to its default error handler, which answers 500
Route(req) ==
    LET a == authenticateToken(req.authorization)
    IN IF a.kind = "throw" THEN Sent(500, "Internal Server Error")
       ELSE IF a.kind # "next" THEN a
       ELSE LET b == requireAdmin(a.user)
            IN IF b.kind # "next" THEN b
               ELSE IF req.route = "create-user" THEN createUser(req.body)
               ELSE listUsers

Routes == {"create-user", "users"}

Authorizations ==
    {UNDEF, Str(<<>>), Str(<<"Bearer">>), Str(<<"Bearer", "garbage">>),
     Str(<<"Bearer", "user.jwt">>), Str(<<"Bearer", "admin.jwt">>)}

Bodies ==
    [name : {"Ann"}, email : {"", "admin@ventaroai.com", "ann@example.com"},
     password : {"pw"}]

\* a request to an admin route arrives
Arrive(j, route, authorization, body) ==
    /\ adminPc[j] = "none"
    /\ adminReq' = [adminReq EXCEPT ![j] =
          [route |-> route, authorization |-> authorization, body |-> body]]
    /\ adminPc' = [adminPc EXCEPT ![j] = "received"]
    /\ UNCHANGED <<adminRes, dbOps, users>>
    /\ UNCHANGED researchVars

\* the route runs until it has sent its reply or awaits the database
Handle(j) ==
    /\ adminPc[j] = "received"
    /\ LET o == Route(adminReq[j])
       IN IF o.kind = "await"
          THEN /\ dbOps' = Append(dbOps, [req |-> j, op |-> o.op, email |-> o.email])
               /\ adminPc' = [adminPc EXCEPT ![j] = "awaiting"]
               /\ UNCHANGED adminRes
          ELSE /\ adminRes' = [adminRes EXCEPT ![j] =
                     [status |-> o.status, error |-> o.error]]
               /\ adminPc' = [adminPc EXCEPT ![j] = "done"]
               /\ UNCHANGED dbOps
    /\ UNCHANGED <<adminReq, users>>
    /\ UNCHANGED researchVars

InitAdmin == Init /\ \A p \in Providers : ~API_KEYS[p]

\* admin requests, arriving and handled in any order
NextAdmin ==
    \/ \E j \in Reqs, route \in Routes, authorization \in Authorizations,
          body \in Bodies : Arrive(j, route, authorization, body)
    \/ \E j \in Reqs : Handle(j)

SpecAdmin == InitAdmin /\ [][NextAdmin]_vars

\* ------------------------------------------------------------------ claims
InSeq(x, seq) == \E k \in 1..Len(seq) : seq[k] = x

\* the field holds a value: neither null nor undefined
NonNull(v) == v.t \notin {"null", "undefined"}

\* performClientResearch was called for invocation i
Started(i) == pc[i] \notin {"idle", "done"} \/ response[i].status = 200

\* invocation i is past step 1 (the company-profile call and its merge)
PastMerge(i) ==
    pc[i] \in {"hunter", "news", "analysis", "catch", "return"}
        \/ response[i].status = 200

\* invocation i is past the company-profile call
PastClearbit(i) == pc[i] = "merge" \/ PastMerge(i)

RemoteFailed(i, provider) == remote[i][provider].kind \in FailureKinds

\* C1: for every non-empty entity name and every combination of adapter
\* outcomes, the record of performClientResearch carries the input name and
\* the timestamp taken when aggregation began, at every step and in the
\* record sent back.
C1_NameAndTimestampKept ==
    \A i \in Invs :
        /\ Started(i) =>
              /\ result[i].name = clientName[i]
              /\ result[i].timestamp = toISOString(began[i])
        /\ response[i].status = 200 =>
              /\ response[i].body.name = clientName[i]
              /\ response[i].body.timestamp = toISOString(began[i])

\* a record was sent back after a step threw and after the clock moved on
C1_Witness ==
    /\ response[1].status = 200
    /\ clock > began[1]
    /\ fault[1] = "merge"
    /\ remote[1]["clearbit"].kind = "ok"

\* C2 (as claimed): when a step throws, every later step still runs; a
\* fault in the company-profile step does not keep news-lookup and
\* narrative-synthesis from being invoked and setting news and analysis.
C2_LaterStepsStillRun ==
    \A i \in Invs :
        /\ (response[i].status = 200 /\ fault[i] \in {"merge", "hunter"}) =>
              /\ InSeq("news", invoked[i])
              /\ NonNull(response[i].body.news)
        /\ (response[i].status = 200 /\ fault[i] \in {"merge", "hunter", "news"}) =>
              /\ InSeq("openai", invoked[i])
              /\ NonNull(response[i].body.analysis)

\* the fields the steps after the faulty one would have written
FieldsAfter(step) ==
    CASE step = "merge" ->
            {"location", "employees", "description", "contacts", "news", "analysis"}
      [] step = "hunter" -> {"contacts", "news", "analysis"}
      [] step = "news" -> {"news", "analysis"}
      [] step = "analysis" -> {"analysis"}
      [] OTHER -> {}

\* C3: a throw of any step is caught inside performClientResearch: the
\* handler still answers 200 with the record, which is the record as it was
\* when the step threw, the fields of the faulty and the later steps null.
C3_FaultCaughtRecordReturned ==
    \A i \in Invs :
        fault[i] # "none" =>
            /\ pc[i] \in {"catch", "return", "done"}
            /\ response[i].status \in {0, 200}
            /\ pc[i] \in {"return", "done"} => result[i] = atFault[i]
            /\ pc[i] = "done" =>
                  /\ response[i].status = 200
                  /\ response[i].body = atFault[i]
                  /\ \A f \in FieldsAfter(fault[i]) : response[i].body[f] = NULL

\* a record was sent back after contact discovery threw, with the fields
\* of step 1 filled
C3_Witness ==
    /\ response[1].status = 200
    /\ fault[1] = "hunter"
    /\ NonNull(response[1].body.industry)
    /\ NonNull(response[1].body.location)

\* C4: when website is null after the company-profile step, getHunterData
\* is never invoked and contacts is null, in the record and in what is sent.
C4_NullWebsiteSkipsContacts ==
    \A i \in Invs :
        (PastMerge(i) /\ result[i].website = NULL) =>
            /\ ~InSeq("hunter", invoked[i])
            /\ result[i].contacts = NULL
            /\ response[i].status = 200 => response[i].body.contacts = NULL

\* a record was sent back whose website the provider gave as null, the
\* later steps having run
C4_Witness ==
    /\ response[1].status = 200
    /\ result[1].website = NULL
    /\ companyInfo[1].kind = "object"
    /\ InSeq("news", invoked[1])
    /\ InSeq("openai", invoked[1])

\* a complete 2xx reply of each provider
CompleteCompany(d) ==
    /\ d.kind = "object"
    /\ d.category.present /\ d.category.a.t = "string"
    /\ d.domain.t = "string" /\ Truthy(d.domain)
    /\ d.geo.present /\ d.geo.a.t = "string" /\ d.geo.b.t = "string"
    /\ d.metrics.present /\ d.metrics.a.t \in {"string", "number"}
    /\ d.description.t = "string"

CompleteEmails(d) ==
    /\ d.isList
    /\ \A k \in 1..Len(d.emails) :
          /\ d.emails[k].isObject
          /\ d.emails[k].value.t = "string"
          /\ d.emails[k].first_name.t = "string"
          /\ d.emails[k].last_name.t = "string"
          /\ d.emails[k].position.t = "string"

CompleteArticles(d) ==
    /\ d.isList
    /\ \A k \in 1..Len(d.articles) :
          /\ d.articles[k].isObject
          /\ d.articles[k].title.t = "string"
          /\ d.articles[k].publishedAt.t = "string"

CompleteChat(d) == d.hasMessage /\ d.content.t = "string"

Complete(provider, d) ==
    CASE provider = "clearbit" -> CompleteCompany(d)
      [] provider = "hunter" -> CompleteEmails(d)
      [] provider = "news" -> CompleteArticles(d)
      [] OTHER -> CompleteChat(d)

\* the adapter of the provider ran as it is meant to: on the mock data
\* for want of a credential, or live on a complete reply
BehavedNormally(i, provider) ==
    /\ InSeq(provider, invoked[i])
    /\ \/ ~API_KEYS[provider]
       \/ /\ remote[i][provider].kind = "ok"
          /\ Complete(provider, remote[i][provider].data)

\* C5 (as claimed): when the remote call of exactly one adapter fails and
\* the other adapters behave normally, the record sent back has non-null
\* industry, website, contacts and analysis.
C5_OneFailureFillsTheRest ==
    \A i \in Invs :
        ( /\ response[i].status = 200
          /\ \E p \in Providers :
                /\ RemoteFailed(i, p)
                /\ \A q \in Providers \ {p} :
                      ~RemoteFailed(i, q)
                        /\ (InSeq(q, invoked[i]) => BehavedNormally(i, q)) )
        => /\ NonNull(response[i].body.industry)
           /\ NonNull(response[i].body.website)
           /\ NonNull(response[i].body.contacts)
           /\ NonNull(response[i].body.analysis)

\* C6 (as claimed): no adapter raises to its caller; with its credential
\* present and its remote call failed, it returns what its mock generator
\* returns for the same input.
C6_RemoteFailureGivesMock ==
    \A i \in Invs :
        /\ (PastClearbit(i) /\ RemoteFailed(i, "clearbit")) =>
              companyInfo[i] = getMockCompanyData(result[i].name)
        /\ RemoteFailed(i, "hunter") =>
              /\ fault[i] # "hunter"
              /\ result[i].contacts = getMockContactData(result[i].website).v
        /\ RemoteFailed(i, "news") =>
              /\ fault[i] # "news"
              /\ result[i].news = getMockNewsData(result[i].name).v
        /\ RemoteFailed(i, "openai") =>
              /\ fault[i] # "analysis"
              /\ result[i].analysis = getMockAnalysis(result[i]).v

\* the remote call of the provider came back 2xx with a reply that is not
\* complete
Malformed(i, provider) ==
    /\ remote[i][provider].kind = "ok"
    /\ ~Complete(provider, remote[i][provider].data)

\* C7 (as claimed): every adapter treats a 2xx reply with a malformed or
\* incomplete payload as a remote failure: it returns what its mock
\* generator returns, and nothing of the payload reaches the record.
C7_MalformedReplyGivesMock ==
    \A i \in Invs :
        /\ (PastClearbit(i) /\ Malformed(i, "clearbit")) =>
              companyInfo[i] = getMockCompanyData(result[i].name)
        /\ Malformed(i, "hunter") =>
              result[i].contacts = getMockContactData(result[i].website).v
        /\ Malformed(i, "news") =>
              result[i].news = getMockNewsData(result[i].name).v
        /\ Malformed(i, "openai") =>
              result[i].analysis = getMockAnalysis(result[i]).v

\* C8: an adapter whose credential is absent issues no remote call and
\* completes as its mock generator does on the same input (with its value,
\* or with its throw); a remote call is issued only to a provider whose
\* credential is present.
C8_NoCredentialNoRemoteCall ==
    \A i \in Invs :
        /\ \A p \in Providers : InSeq(p, calls[i]) => API_KEYS[p]
        /\ \A p \in Providers :
              (~API_KEYS[p] /\ InSeq(p, invoked[i])) => remote[i][p].kind = "notcalled"
        /\ (~API_KEYS["clearbit"] /\ InSeq("clearbit", invoked[i])) =>
              companyInfo[i] = getMockCompanyData(result[i].name)
        /\ (~API_KEYS["hunter"] /\ InSeq("hunter", invoked[i])) =>
              LET mock == getMockContactData(result[i].website)
              IN IF mock.thrown THEN fault[i] = "hunter" /\ result[i].contacts = NULL
                 ELSE result[i].contacts = mock.v
        /\ (~API_KEYS["news"] /\ InSeq("news", invoked[i])) =>
              LET mock == getMockNewsData(result[i].name)
              IN IF mock.thrown THEN fault[i] = "news" /\ result[i].news = NULL
                 ELSE result[i].news = mock.v
        /\ (~API_KEYS["openai"] /\ InSeq("openai", invoked[i])) =>
              LET mock == getMockAnalysis(result[i])
              IN IF mock.thrown THEN fault[i] = "analysis" /\ result[i].analysis = NULL
                 ELSE result[i].analysis = mock.v

\* a record was sent back by a run with no credential at all, all four
\* adapters invoked
C8_Witness ==
    /\ response[1].status = 200
    /\ \A p \in Providers : ~API_KEYS[p]
    /\ Len(invoked[1]) = 4
    /\ calls[1] = <<>>

\* the secondary remote source for company profiles the documentation names
SecondarySource == "serpapi"

\* C9 (as claimed): when the primary company-profile source fails, a
\* secondary remote source is tried before the mock profile is returned.
C9_SecondarySourceTried ==
    \A i \in Invs :
        (PastClearbit(i) /\ RemoteFailed(i, "clearbit")) =>
            InSeq(SecondarySource, calls[i])

\* the field holds no value
IsNull(v) == v.t \in {"null", "undefined"}

\* C10 (as claimed): a sub-field the company-profile payload lacks leaves
\* its field of the record without a value; location has none when the
\* payload has no geo data.
C10_MissingSubFieldStaysNull ==
    \A i \in Invs :
        (PastMerge(i) /\ fault[i] # "merge" /\ companyInfo[i].kind = "object") =>
            /\ IsNull(ChainA(companyInfo[i].category)) => IsNull(result[i].industry)
            /\ IsNull(companyInfo[i].domain) => IsNull(result[i].website)
            /\ ~companyInfo[i].geo.present => IsNull(result[i].location)
            /\ IsNull(ChainA(companyInfo[i].metrics)) => IsNull(result[i].employees)
            /\ IsNull(companyInfo[i].description) => IsNull(result[i].description)

\* ------------------------------------------------------- the mock records
\* the text of a value: its pieces run together
RECURSIVE Text(_)
Text(pieces) == IF pieces = <<>> THEN "" ELSE Head(pieces) \o Text(Tail(pieces))

\* a value as the caller reads it: its type and its text
View(v) == [t |-> v.t, text |-> Text(v.s)]
S(text) == [t |-> "string", text |-> text]

Fields ==
    {"industry", "website", "location", "employees", "description",
     "contacts", "news", "analysis"}

AllKeysAbsent == \A p \in Providers : ~API_KEYS[p]

\* the record the mock data give for "Apple Inc", timestamp apart
GoldenApple ==
    [name |-> S("Apple Inc"),
     industry |-> S("Technology"),
     website |-> S("apple.com"),
     location |-> S("Cupertino, United States"),
     employees |-> [t |-> "number", text |-> "164000"],
     description |-> S("Technology company that designs and manufactures consumer electronics, software, and online services."),
     contacts |-> S("info@apple.com, sales@apple.com, contact@apple.com"),
     news |-> S("Recent Apple Inc announcement about new product launch; Apple Inc reports quarterly earnings"),
     analysis |-> S("Apple Inc shows strong potential for B2B partnerships given their Technology focus and 164000 employee base. Target C-level executives and department heads for decision-making. Approach with industry-specific solutions and emphasize ROI and efficiency gains.")]

\* the record the mock data give for "constructor", timestamp apart
GoldenConstructor ==
    [name |-> S("constructor"),
     industry |-> View(UNDEF),
     website |-> View(UNDEF),
     location |-> S("undefined, undefined"),
     employees |-> View(UNDEF),
     description |-> View(UNDEF),
     contacts |-> View(NULL),
     news |-> S("Recent constructor announcement about new product launch; constructor reports quarterly earnings"),
     analysis |-> S("constructor shows strong potential for B2B partnerships given their undefined focus and undefined employee base. Target C-level executives and department heads for decision-making. Approach with industry-specific solutions and emphasize ROI and efficiency gains.")]

Golden(name) ==
    IF name = Lit("Apple Inc") THEN GoldenApple ELSE GoldenConstructor

GoldenNames == {Lit("Apple Inc"), Lit("constructor")}

\* both requests were answered with a record by a server without any
\* credential, and they named the same entity
SameNameTwice(i, j) ==
    /\ i # j
    /\ AllKeysAbsent
    /\ response[i].status = 200 /\ response[j].status = 200
    /\ clientName[i] = clientName[j]

\* C11 (as claimed): with every credential absent, two runs on the same
\* entity name return identical full records.
C11_SameRecordTwice ==
    \A i, j \in Invs :
        SameNameTwice(i, j) => response[i].body = response[j].body

\* C11 (amended): with every credential absent, two runs on the same entity
\* name return records that agree in every field but the timestamp, each
\* field being what the mock data give for the name.
C11_SameRecordButTimestamp ==
    \A i, j \in Invs :
        SameNameTwice(i, j) =>
            /\ response[i].body.name = response[j].body.name
            /\ \A f \in Fields : response[i].body[f] = response[j].body[f]
            /\ clientName[i] \in GoldenNames =>
                  \A f \in Fields \cup {"name"} :
                      View(response[i].body[f]) = Golden(clientName[i])[f]

\* two runs on "Apple Inc" without credentials were answered, begun at
\* different instants
C11_Witness ==
    /\ SameNameTwice(1, 2)
    /\ clientName[1] = Lit("Apple Inc")
    /\ began[1] # began[2]

\* invocation i was answered with a record for the name, by a server
\* without any credential
MockRun(i, name) ==
    /\ AllKeysAbsent
    /\ response[i].status = 200
    /\ clientName[i] = name

\* C12: for "Apple Inc" with all credentials absent the record has industry
\* "Technology", website "apple.com", a location containing "Cupertino",
\* employee count 164000, contacts "info@apple.com, sales@apple.com,
\* contact@apple.com" and a non-empty analysis containing "Apple Inc".
C12_AppleScenario ==
    \A i \in Invs :
        MockRun(i, Lit("Apple Inc")) =>
            LET r == response[i].body
            IN /\ View(r.industry) = S("Technology")
               /\ View(r.website) = S("apple.com")
               /\ r.location.t = "string" /\ InSeq("Cupertino", r.location.s)
               /\ View(r.employees) = [t |-> "number", text |-> "164000"]
               /\ View(r.contacts) = S("info@apple.com, sales@apple.com, contact@apple.com")
               /\ r.analysis.t = "string" /\ Text(r.analysis.s) # ""
               /\ InSeq("Apple Inc", r.analysis.s)

\* the request for "Apple Inc" was answered by a server without credentials
C12_Witness == MockRun(1, Lit("Apple Inc")) /\ Len(invoked[1]) = 4

\* C13 (as claimed): every entity name that is not one of the two keys of
\* the mock table gets the unknown profile: with all credentials absent the
\* record has industry "Unknown", website "unknown.com", employee count
\* "Unknown" and contacts "info@unknown.com, sales@unknown.com,
\* contact@unknown.com".
C13_OtherNamesUnknown ==
    \A i \in Invs :
        ( /\ AllKeysAbsent
          /\ response[i].status = 200
          /\ clientName[i] \notin {Lit("Apple Inc"), Lit("Microsoft Corporation")} )
        => LET r == response[i].body
           IN /\ companyInfo[i] = mockData_Unknown
              /\ View(r.industry) = S("Unknown")
              /\ View(r.website) = S("unknown.com")
              /\ View(r.employees) = S("Unknown")
              /\ View(r.contacts) = S("info@unknown.com, sales@unknown.com, contact@unknown.com")

\* invocation i never got as far as performClientResearch
NothingStarted(i) ==
    /\ result[i] = NoResult
    /\ invoked[i] = <<>>
    /\ calls[i] = <<>>
    /\ fault[i] = "none"

EmptyOrMissing(name) == name \in {Str(<<>>), UNDEF, NULL}

\* C14 (as claimed): a request whose entity name is empty or missing is
\* answered 400 before the pipeline starts, and that is the only case in
\* which a request yields no record.
C14_OnlyRejectionYieldsNoRecord ==
    \A i \in Invs :
        /\ (pc[i] = "done" /\ EmptyOrMissing(clientName[i])) =>
              response[i].status = 400 /\ NothingStarted(i)
        /\ (pc[i] = "done" /\ response[i].status # 200) =>
              EmptyOrMissing(clientName[i])

\* C14 (amended): a request whose entity name is empty or missing is
\* answered 400 before the pipeline starts; a request yields no record only
\* then, or when its name cannot be converted to a string, which the
\* handler answers 500, also before the pipeline starts.
C14_RejectedBeforePipeline ==
    \A i \in Invs :
        /\ (pc[i] # "idle" /\ EmptyOrMissing(clientName[i])) =>
              pc[i] = "done" /\ response[i].status = 400 /\ NothingStarted(i)
        /\ (pc[i] = "done" /\ response[i].status # 200) =>
              /\ NothingStarted(i)
              /\ \/ response[i].status = 400 /\ EmptyOrMissing(clientName[i])
                 \/ response[i].status = 500 /\ ~CanToString(clientName[i])

\* a request with an empty name was answered 400
C14_Witness ==
    /\ pc[1] = "done"
    /\ clientName[1] = Str(<<>>)
    /\ response[1].status = 400

\* C15 (as claimed): the caller receives a record or the input-validation
\* rejection and nothing else.
C15_RecordOrRejectionOnly ==
    \A i \in Invs : pc[i] = "done" => response[i].status \in {200, 400}

\* C15 (amended): the caller receives a record, the input-validation
\* rejection, or the 500 answer to a name that cannot be converted to a
\* string, given before the pipeline starts; no failure of an adapter or of
\* a step of the aggregation reaches the caller as an error.
C15_NoFailureReachesCaller ==
    \A i \in Invs :
        /\ pc[i] = "done" => response[i].status \in {200, 400, 500}
        /\ response[i].status = 500 =>
              NothingStarted(i) /\ ~CanToString(clientName[i])
        /\ (pc[i] = "done" /\ (fault[i] # "none" \/ invoked[i] # <<>>)) =>
              response[i].status = 200
        /\ (pc[i] = "done" /\ \E p \in Providers : RemoteFailed(i, p)) =>
              response[i].status = 200

\* a record was sent back by a run in which a remote call failed and a
\* later step threw
C15_Witness ==
    /\ response[1].status = 200
    /\ fault[1] # "none"
    /\ \E p \in Providers : RemoteFailed(1, p)

\* every awaited step of a request completes: each remote call is made with
\* a timeout, and the steps between two awaits are synchronous
NextLive == Tick \/ ResearchPair(1)

SpecLive == Init /\ [][NextLive]_vars /\ WF_vars(ResearchPair(1))

Running == {"clearbit", "merge", "hunter", "news", "analysis", "catch", "return"}

\* C16: every invocation of performClientResearch eventually returns its
\* record, given that each remote call settles; narrative synthesis can run
\* whenever it is reached, whatever fields are filled.
C16_EventuallyReturns ==
    /\ \A i \in Invs :
          (pc[i] \in Running) ~>
              /\ pc[i] = "done"
              /\ response[i].status = 200
              /\ response[i].body = ReturnResult(result[i])
    /\ [](\A i \in Invs :
            pc[i] = "analysis" =>
                ENABLED (\E o \in Outcomes("openai", PairChatOutcomes, NoChoiceReply) :
                            NarrativeSynthesis(i, o)))

\* a record was returned with an analysis although contacts never got filled
C16_Witness ==
    /\ pc[1] = "done"
    /\ response[1].status = 200
    /\ NonNull(result[1].analysis)
    /\ result[1].contacts = NULL

\* the position at which performClientResearch assigns the field
WrittenAt(f) ==
    CASE f \in {"industry", "website", "location", "employees", "description"} -> "merge"
      [] f = "contacts" -> "hunter"
      [] f = "news" -> "news"
      [] f = "analysis" -> "analysis"

\* how far a request has got
Rank(p) ==
    CASE p = "idle" -> 0 [] p = "clearbit" -> 1 [] p = "merge" -> 2
      [] p = "hunter" -> 3 [] p = "news" -> 4 [] p = "analysis" -> 5
      [] p = "catch" -> 6 [] p = "return" -> 7 [] p = "done" -> 8

\* C19: in every run each of the eight fields starts null and is written at
\* most once: a field changes only at its own assignment, from null, and no
\* position is visited twice, so no later stage clears or overwrites it.
C19_FieldsWrittenOnce ==
    /\ [](\A i \in Invs : \A f \in Fields :
            pc[i] \in {"idle", "clearbit"} => result[i][f] = NULL)
    /\ [][\A i \in Invs :
            /\ pc'[i] # pc[i] => Rank(pc'[i]) > Rank(pc[i])
            /\ \A f \in Fields :
                  result'[i][f] # result[i][f] =>
                      /\ result[i][f] = NULL
                      /\ pc[i] = WrittenAt(f)
                      /\ pc'[i] # pc[i]]_vars

\* a run that wrote all eight fields and then returned through the catch
\* block or the normal path
C19_Witness ==
    /\ pc[1] = "done"
    /\ response[1].status = 200
    /\ \A f \in Fields : NonNull(result[1][f])

IsPrefix(s, t) == Len(s) <= Len(t) /\ \A k \in 1..Len(s) : s[k] = t[k]

WithContacts == <<"clearbit", "hunter", "news", "openai">>

WithoutContacts == <<"clearbit", "news", "openai">>

\* invocation i ran to its return statement and no step threw
Unfaulted(i) ==
    /\ fault[i] = "none"
    /\ pc[i] = "return" \/ (pc[i] = "done" /\ response[i].status = 200)

HasToken(j) == Truthy(Token(adminReq[j].authorization))

Role(j) == Verify(Token(adminReq[j].authorization))

\* C17 (as claimed): the admin handlers issue database operations only for
\* a request with a valid token of an admin; a request with no token gets
\* 401, one with an invalid token 403, one with a valid token of another
\* role 403, and none of these issues a database operation.
C17_AdminOnly ==
    /\ \A k \in 1..Len(dbOps) : Role(dbOps[k].req) = "admin"
    /\ \A j \in Reqs :
          adminPc[j] = "done" =>
              /\ ~HasToken(j) => adminRes[j].status = 401
              /\ (HasToken(j) /\ Role(j) = "") => adminRes[j].status = 403
              /\ (HasToken(j) /\ Role(j) = "user") => adminRes[j].status = 403

\* C18 (as claimed): a create-user request of an admin whose email belongs
\* to an existing user is answered 400 'already exists'; no insert is
\* issued for an email that is in the users table.
C18_DuplicateRejected ==
    /\ \A k \in 1..Len(dbOps) :
          dbOps[k].op = "insert" => dbOps[k].email \notin users
    /\ \A j \in Reqs :
          (/\ adminPc[j] = "done"
           /\ adminReq[j].route = "create-user"
           /\ Role(j) = "admin"
           /\ adminReq[j].body.email \in users) =>
              /\ adminRes[j].status = 400
              /\ adminRes[j].error = "User with this email already exists"

\* how many times x occurs in seq
Count(x, seq) == Cardinality({k \in 1..Len(seq) : seq[k] = x})

\* C21: within one run each provider's remote call is issued at most once;
\* after a failure or a timeout it is not issued again, and the adapter
\* returns its fallback.
C21_NoRetry ==
    \A i \in Invs :
        /\ \A p \in Providers :
              /\ Count(p, calls[i]) <= 1
              /\ RemoteFailed(i, p) => Count(p, calls[i]) = 1
        /\ RemoteFailed(i, "clearbit") =>
              companyInfo[i] = getMockCompanyData(clientName[i])
        /\ (RemoteFailed(i, "hunter") /\ fault[i] # "hunter") =>
              result[i].contacts = getMockContactData(result[i].website).v
        /\ RemoteFailed(i, "news") =>
              result[i].news = getMockNewsData(clientName[i]).v
        /\ (RemoteFailed(i, "openai") /\ fault[i] # "analysis") =>
              result[i].analysis =
                  getMockAnalysis([result[i] EXCEPT !.analysis = NULL]).v

\* a run whose news call timed out: one call, and the synthetic headlines
C21_Witness ==
    /\ pc[1] = "done"
    /\ remote[1]["news"].kind = "timeout"
    /\ Count("news", calls[1]) = 1
    /\ result[1].news = getMockNewsData(clientName[1]).v

\* what performClientResearch returns when it runs on its own: the record as
\* a function of the name, the instant it began, the credentials and the
\* outcomes of its remote calls
Alone(name, instant, keys, out) ==
    LET r0 == NewResult(name, instant)
        c == getClearbitData(name, keys["clearbit"], out["clearbit"])
        m == MergeCompanyInfo(r0, c.v)
        r1 == m.rec
        h == getHunterData(r1.website, keys["hunter"], out["hunter"])
        r2 == IF HunterGate(r1) THEN [r1 EXCEPT !.contacts = h.v] ELSE r1
        n == getNewsData(name, keys["news"], out["news"])
        r3 == [r2 EXCEPT !.news = n.v]
        a == getAIAnalysis(r3, keys["openai"], out["openai"])
    IN IF m.thrown THEN CatchResearch(r1)
       ELSE IF HunterGate(r1) /\ h.thrown THEN CatchResearch(r1)
       ELSE IF n.thrown THEN CatchResearch(r2)
       ELSE IF a.thrown THEN CatchResearch(r3)
       ELSE [r3 EXCEPT !.analysis = a.v]

\* everything the model keeps for invocation i
Own(i) ==
    <<pc[i], clientName[i], result[i], companyInfo[i], response[i], console[i],
      began[i], invoked[i], calls[i], remote[i], fault[i], atFault[i]>>

\* C22: under any interleaving of the steps of concurrent invocations, a
\* step of one invocation changes nothing that belongs to another, the
\* credentials are never written, and the record an invocation returns is
\* the one it returns when run alone on the same name, at the same instant,
\* with the same outcomes of its remote calls.
C22_Isolated ==
    /\ [](\A i \in Invs :
            (pc[i] = "done" /\ response[i].status = 200) =>
                response[i].body = Alone(clientName[i], began[i], API_KEYS, remote[i]))
    /\ [][/\ API_KEYS' = API_KEYS
          /\ \A i \in Invs :
                Own(i)' # Own(i) => \A k \in Invs \ {i} : Own(k)' = Own(k)]_vars

\* two requests for the same name, both answered, with different records
C22_Witness ==
    /\ pc[1] = "done" /\ pc[2] = "done"
    /\ response[1].status = 200 /\ response[2].status = 200
    /\ clientName[1] = clientName[2]
    /\ began[1] = began[2]
    /\ response[1].body # response[2].body

\* the line an adapter logs when its credential is missing
KeyMissingLine(p) ==
    CASE p = "clearbit" -> LogLine("log", <<"Clearbit API key not configured, using mock data">>)
      [] p = "hunter" -> LogLine("log", <<"Hunter API key not configured, using mock data">>)
      [] p = "news" -> LogLine("log", <<"News API key not configured, using mock data">>)
      [] p = "openai" -> LogLine("log", <<"OpenAI API key not configured, using mock analysis">>)

\* how the line an adapter logs in its catch block begins
ErrorPrefix(p) ==
    CASE p = "clearbit" -> "Clearbit API error:"
      [] p = "hunter" -> "Hunter API error:"
      [] p = "news" -> "News API error:"
      [] p = "openai" -> "OpenAI API error:"

TimeoutOf(p) == IF p = "openai" THEN "15000" ELSE "10000"

\* the lines of invocation i that adapter p wrote
LinesOf(i, p) ==
    SelectSeq(console[i],
              LAMBDA line : line = KeyMissingLine(p) \/ line.text[1] = ErrorPrefix(p))

\* adapter p of invocation i returned what the provider sent
RanLive(i, p) ==
    /\ remote[i][p].kind = "ok"
    /\ CASE p = "clearbit" -> TRUE
         [] p = "hunter" -> ~HunterLive(remote[i][p].data).thrown
         [] p = "news" -> ~NewsLive(remote[i][p].data).thrown
         [] p = "openai" -> ~AnalysisLive(remote[i][p].data).thrown

RECURSIVE JoinText(_, _)
JoinText(texts, sep) ==
    IF texts = <<>> THEN ""
    ELSE IF Len(texts) = 1 THEN Head(texts)
    ELSE Head(texts) \o sep \o JoinText(Tail(texts), sep)

TextOf(v) == Text(JsToString(v))

\* a remote candidate as the record shows it
CandidateText(email) ==
    TextOf(email.value) \o " (" \o TextOf(email.first_name) \o " "
        \o TextOf(email.last_name) \o " - " \o TextOf(email.position) \o ")"

\* a remote headline with its date as the record shows it
HeadlineText(article) ==
    TextOf(article.title) \o " ("
        \o TextOf(toLocaleDateString(article.publishedAt).v) \o ")"

TriadText(domain) ==
    "info@" \o domain \o ", sales@" \o domain \o ", contact@" \o domain

TwoHeadlinesText(name) ==
    "Recent " \o name \o " announcement about new product launch; "
        \o name \o " reports quarterly earnings"

UsedGenerator(i, p) ==
    /\ InSeq(p, invoked[i])
    /\ ~RanLive(i, p)
    /\ p = "hunter" => fault[i] # "hunter"
    /\ p = "openai" => fault[i] # "analysis"

\* what the generator of p was called with, and what it returned
GeneratorInput(i, p) ==
    CASE p = "clearbit" -> clientName[i]
      [] p = "hunter" -> result[i].website
      [] p = "news" -> clientName[i]
      [] p = "openai" -> [result[i] EXCEPT !.analysis = NULL]

GeneratorOutput(i, p) ==
    CASE p = "clearbit" -> companyInfo[i]
      [] p = "hunter" -> result[i].contacts
      [] p = "news" -> result[i].news
      [] p = "openai" -> result[i].analysis

\* C25: the synthetic generators are pure: two calls with the same input
\* return the same output, whichever invocation made them, whenever it made
\* them, whatever was called before and whether the credential was missing
\* or the remote call failed; the output is a fixed text of the input.
C25_GeneratorsPure ==
    /\ \A i \in Invs : \A k \in Invs : \A p \in Providers :
          (/\ UsedGenerator(i, p) /\ UsedGenerator(k, p)
           /\ GeneratorInput(i, p) = GeneratorInput(k, p)) =>
              GeneratorOutput(i, p) = GeneratorOutput(k, p)
    /\ \A i \in Invs :
          /\ UsedGenerator(i, "hunter") =>
                Text(result[i].contacts.s) = TriadText(TextOf(result[i].website))
          /\ UsedGenerator(i, "news") =>
                Text(result[i].news.s) = TwoHeadlinesText(TextOf(clientName[i]))

\* two requests for the same name that began at different instants, the
\* second after the first had made its calls, both with synthetic news
C25_Witness ==
    /\ pc[1] = "done" /\ pc[2] = "done"
    /\ clientName[1] = clientName[2]
    /\ began[1] # began[2]
    /\ UsedGenerator(1, "news") /\ UsedGenerator(2, "news")
    /\ UsedGenerator(1, "clearbit") /\ UsedGenerator(2, "clearbit")
    /\ result[1].news = result[2].news

\* C26: in every run in which no step throws into the catch block of
\* performClientResearch, the returned record has news and analysis, whatever
\* the credentials and the outcomes of the remote calls, also when there is
\* no website and contact discovery is skipped.
C26_NewsAndAnalysisFilled ==
    \A i \in Invs :
        (pc[i] = "done" /\ response[i].status = 200 /\ fault[i] = "none") =>
            /\ NonNull(response[i].body.news)
            /\ NonNull(response[i].body.analysis)
            /\ response[i].body.news.t = "string"
            /\ response[i].body.analysis.t = "string"

\* a run without a website, whose news and narrative calls both failed
C26_Witness ==
    /\ pc[1] = "done" /\ fault[1] = "none"
    /\ ~Truthy(result[1].website)
    /\ ~InSeq("hunter", invoked[1])
    /\ RemoteFailed(1, "news") /\ RemoteFailed(1, "openai")
    /\ NonNull(response[1].body.news) /\ NonNull(response[1].body.analysis)

====
